---- MODULE Spec2Model ----
(***************************************************************************)
(* Index-block subsystem of wtsTCSAM2015 (src/src/ModelIndexBlocks.cpp).   *)
(*                                                                         *)
(* Texts are sequences of one-character strings, so that parsing (atoi,    *)
(* adstring::pos, adstring::operator()(i,j)) and writing (ostream << int)  *)
(* are modelled by what they do on characters.                             *)
(***************************************************************************)
EXTENDS Integers, Sequences, FiniteSets, TLC

VARIABLES
    status,   \* "run", or "exit" once the process has terminated
    rng,      \* the IndexRange under study
    rin,      \* the input last handed to rng's parse (NoInput before)
    rout,     \* the text last produced by rng's write (NoText before)
    rng2,     \* a second IndexRange, built by parsing rout (NoRange before)
    blk,      \* the IndexBlock under study
    bin,      \* the input last handed to blk's parse (NoInput before)
    oob,      \* TRUE once a store past the end of ivFwd has happened
    cfg,      \* the static members of ModelConfiguration
    ibs,      \* the IndexBlockSet under study
    sin,      \* the call last made on ibs, with its input
    warned,   \* TRUE when the last setType printed its warning
    ibss,     \* the IndexBlockSets under study
    ssin,     \* the call last made on ibss, with its input
    got,      \* the result of the last getIndexBlockSet(type)
    bout,     \* the text last produced by blk's write (NoText before)
    blk2,     \* a second IndexBlock, built by parsing bout (NoBlock before)
    sout,     \* what the last write of ibs or ibss did (NoOutput before)
    limits    \* the result of the last getIndexLimits (NoLimits before)

vars ==
    <<status, rng, rin, rout, rng2, blk, bin, oob,
      cfg, ibs, sin, warned, ibss, ssin, got, bout, blk2, sout, limits>>

----------------------------------------------------------------------------
(* Bounds of the model *)

\* generic range operands are -1..MaxOperand
MaxOperand == 3
\* generic block operands are -1..MaxBlockOperand
MaxBlockOperand == 2
\* generic blocks hold 1..MaxRanges ranges
MaxRanges == 2
\* generic sets hold 0..MaxBlocks blocks
MaxBlocks == 2
\* at most MaxCalls calls are made on one IndexBlockSet
MaxCalls == 2
\* generic collections hold 0..MaxSets sets
MaxSets == 2

----------------------------------------------------------------------------
(* Characters and the library conversions the code relies on *)

Digit == <<"0", "1", "2", "3", "4", "5", "6", "7", "8", "9">>

IsDigit(c) == c \in {"0", "1", "2", "3", "4", "5", "6", "7", "8", "9"}

DigitVal(c) == CHOOSE d \in 0..9 : Digit[d + 1] = c

\* decimal digits of a natural number, most significant first
RECURSIVE NatStr(_)
NatStr(n) ==
    IF n < 10 THEN <<Digit[n + 1]>>
    ELSE NatStr(n \div 10) \o <<Digit[(n % 10) + 1]>>

\* os << n for an int n
IntStr(n) == IF n < 0 THEN <<"-">> \o NatStr(0 - n) ELSE NatStr(n)

\* the digits of s from position k on, up to the first non-digit
RECURSIVE atoiDigits(_, _, _)
atoiDigits(s, k, acc) ==
    IF k > Len(s) THEN acc
    ELSE IF ~IsDigit(s[k]) THEN acc
    ELSE atoiDigits(s, k + 1, acc * 10 + DigitVal(s[k]))

\* ::atoi(s): optional sign, then digits up to the first non-digit; 0 if none
atoi(s) ==
    IF s = <<>> THEN 0
    ELSE IF s[1] = "-" THEN 0 - atoiDigits(s, 2, 0)
    ELSE IF s[1] = "+" THEN atoiDigits(s, 2, 0)
    ELSE atoiDigits(s, 1, 0)

RECURSIVE posFrom(_, _, _)
posFrom(s, c, k) ==
    IF k > Len(s) THEN 0
    ELSE IF s[k] = c THEN k
    ELSE posFrom(s, c, k + 1)

\* adstring::pos(c): 1-based position of the first c in s, 0 if there is none
pos(s, c) == posFrom(s, c, 1)

\* adstring::operator()(i,j): the characters i..j of s
substr(s, i, j) == SubSeq(s, i, j)

----------------------------------------------------------------------------
(* IndexRange *)

NoInput == [form |-> "none"]
NoText == <<"?">>
NoRange == [parsed |-> FALSE]
NoBlock == [parsed |-> FALSE]
NoOutput == [written |-> FALSE]
NoLimits == [asked |-> FALSE]

\* nothing has been written and no limits have been asked for
IdleWrites ==
    /\ bout = NoText
    /\ blk2 = NoBlock
    /\ sout = NoOutput
    /\ limits = NoLimits

\* values an int member may hold when the constructor leaves it unset
UninitInts == {0, -7}

\* IndexRange::IndexRange(modMn, modMx): mn and mx are left unset (gmn, gmx)
IndexRange(modMn, modMx, gmn, gmx) ==
    [modMin |-> modMn, modMax |-> modMx, mn |-> gmn, mx |-> gmx, iv |-> <<>>]

\* ivector::allocate(1,n) followed by the fill loop: n <= 0 gives an empty vector
createRangeVector_Off(r, min, max) ==
    [r EXCEPT !.mn = min, !.mx = max,
              !.iv = [i \in 1..(max - min + 1) |-> min + i]]

createRangeVector(r, min, max) ==
    [r EXCEPT !.mn = min, !.mx = max,
              !.iv = [i \in 1..(max - min + 1) |-> min + (i - 1)]]

\* line 44: the first operand of "x:y"
parseMin_SubstMax(r, str, i) ==
    LET m == atoi(substr(str, 1, i - 1)) IN IF m < 0 THEN r.modMax ELSE m

parseMin(r, str, i) ==
    LET m == atoi(substr(str, 1, i - 1)) IN IF m < 0 THEN r.modMin ELSE m

\* line 45: the second operand of "x:y"
parseMax_SubstMin(r, str, i) ==
    LET m == atoi(substr(str, i + 1, Len(str))) IN IF m < 0 THEN r.modMin ELSE m

parseMax(r, str, i) ==
    LET m == atoi(substr(str, i + 1, Len(str))) IN IF m < 0 THEN r.modMax ELSE m

\* lines 47-48: the single-operand form
parseSingle(r, str) == atoi(str)

IndexRange_parse(r, str) ==
    LET i == pos(str, ":") IN
    IF i # 0
    THEN createRangeVector(r, parseMin(r, str, i), parseMax(r, str, i))
    ELSE createRangeVector(r, parseSingle(r, str), parseSingle(r, str))

\* adstring::operator()(i,j) ends the process unless 1 <= i <= j <= size
substrExits(s, i, j) == i < 1 \/ i > j \/ j > Len(s)

\* lines 44-45: TRUE when nothing stands before or after the ":" of str, so
\* that taking the operand ends the process inside the string library
IndexRange_parseExits(str) ==
    LET i == pos(str, ":") IN
    i # 0 /\ (substrExits(str, 1, i - 1) \/ substrExits(str, i + 1, Len(str)))

\* lines 74-76
IndexRange_write_Always(r) == IntStr(r.mn) \o <<":">> \o IntStr(r.mx)

IndexRange_write_Swapped(r) ==
    IF Len(r.iv) > 1 THEN IntStr(r.mx) \o <<":">> \o IntStr(r.mn)
    ELSE IntStr(r.mn)

IndexRange_write_GE(r) ==
    IF Len(r.iv) >= 1 THEN IntStr(r.mn) \o <<":">> \o IntStr(r.mx)
    ELSE IntStr(r.mn)

IndexRange_write(r) ==
    IF Len(r.iv) > 1 THEN IntStr(r.mn) \o <<":">> \o IntStr(r.mx)
    ELSE IntStr(r.mn)

----------------------------------------------------------------------------
(* Inputs: range texts built from their operands *)

\* an operand as an author writes it; padded, a non-negative one gets a leading 0
OperandText(a, pad) ==
    IF pad /\ a >= 0 THEN <<"0">> \o IntStr(a) ELSE IntStr(a)

SingleInput(a, pad) ==
    [form |-> "x", x |-> a, y |-> a, pad |-> pad, text |-> OperandText(a, pad)]

PairInput(a, b, pad) ==
    [form |-> "x:y", x |-> a, y |-> b, pad |-> pad,
     text |-> OperandText(a, pad) \o <<":">> \o OperandText(b, pad)]

Operands == -1..MaxOperand

ExampleRangeInputs ==
    {PairInput(-1, 2000, FALSE), PairInput(1980, -1, FALSE),
     SingleInput(5, FALSE), PairInput(5, 5, FALSE), SingleInput(-2, FALSE)}

RangeInputs ==
    {SingleInput(a, p) : a \in Operands, p \in BOOLEAN}
    \cup {PairInput(ab[1], ab[2], p) : ab \in Operands \X Operands, p \in BOOLEAN}
    \cup ExampleRangeInputs

\* operands that are not integers: non-numeric, partly numeric, or empty
BadOperandTexts ==
    {<<"a">>, <<"1", "a">>, <<"x", "2">>, <<"-">>, <<"1", ".", "5">>, <<>>}

GoodOperandTexts == {OperandText(-1, FALSE), OperandText(2, FALSE)}

MalformedInput(text) == [form |-> "malformed", text |-> text]

\* range texts with at least one operand that is not an integer; a whole
\* text is never empty, since it is a token read from the stream
MalformedRangeInputs ==
    {MalformedInput(t) : t \in BadOperandTexts \ {<<>>}}
    \cup {MalformedInput(t \o <<":">> \o u) :
             t \in BadOperandTexts, u \in BadOperandTexts \cup GoodOperandTexts}
    \cup {MalformedInput(t \o <<":">> \o u) :
             t \in GoodOperandTexts, u \in BadOperandTexts}

\* (modMin, modMax) pairs; <<-1,-1>> is the year span before configuration is read
RangeBounds == {<<1950, 2020>>, <<1, 5>>, <<0, 2>>, <<-1, -1>>}

----------------------------------------------------------------------------
(* IndexBlock *)

\* an IndexBlock as constructed with (modMn, modMx): no ranges, empty tables
IndexBlock(modMn, modMx) ==
    [modMin |-> modMn, modMax |-> modMx, nRCs |-> 0, ppIRs |-> <<>>,
     nIDs |-> 0, ivFwd |-> <<>>, ivRev |-> <<>>]

min(a, b) == IF a < b THEN a ELSE b

max(a, b) == IF a > b THEN a ELSE b

\* lines 103-107, the first pass: mnM, mxM and the length summed into nIDs
RECURSIVE firstPass(_, _, _)
firstPass(ppIRs, c, acc) ==
    IF c > Len(ppIRs) THEN acc
    ELSE firstPass(ppIRs, c + 1,
            [mnM |-> min(acc.mnM, ppIRs[c].mn),
             mxM |-> max(acc.mxM, ppIRs[c].mx),
             nIDs |-> acc.nIDs + (ppIRs[c].mx - ppIRs[c].mn + 1)])

\* ivector::allocate(lo,hi), zeroed: hi < lo gives an empty vector
allocate(lo, hi) == [i \in lo..hi |-> 0]

\* lines 115-118, the inner loop over one range, whose indices mn..mx are
\* distinct: index i gets the position st.nIDs + (i - mn + 1), written to
\* ivFwd at that position and to ivRev at i.  A position past the end of
\* ivFwd is not a position of ivFwd: that store is recorded in oob.
storeRange_FirstWins(st, mn, mx) ==
    LET n == max(0, mx - mn + 1) IN
    [nIDs |-> st.nIDs + n,
     ivFwd |-> [p \in DOMAIN st.ivFwd |->
                  IF p > st.nIDs /\ p <= st.nIDs + n
                  THEN mn + (p - st.nIDs - 1) ELSE st.ivFwd[p]],
     ivRev |-> [i \in DOMAIN st.ivRev |->
                  IF i >= mn /\ i <= mx /\ st.ivRev[i] = 0
                  THEN st.nIDs + (i - mn + 1) ELSE st.ivRev[i]],
     oob |-> st.oob \/ (n > 0 /\ st.nIDs + n > Len(st.ivFwd))]

storeRange_PostIncrement(st, mn, mx) ==
    LET n == max(0, mx - mn + 1) IN
    [nIDs |-> st.nIDs + n,
     ivFwd |-> [p \in DOMAIN st.ivFwd |->
                  IF p > st.nIDs /\ p <= st.nIDs + n
                  THEN mn + (p - st.nIDs - 1) ELSE st.ivFwd[p]],
     ivRev |-> [i \in DOMAIN st.ivRev |->
                  IF i >= mn /\ i <= mx
                  THEN st.nIDs + (i - mn) ELSE st.ivRev[i]],
     oob |-> st.oob \/ (n > 0 /\ st.nIDs + n > Len(st.ivFwd))]

storeRange_Restart(st, mn, mx) ==
    LET n == max(0, mx - mn + 1) IN
    [nIDs |-> st.nIDs + n,
     ivFwd |-> [p \in DOMAIN st.ivFwd |->
                  IF p > st.nIDs /\ p <= st.nIDs + n
                  THEN mn + (p - st.nIDs - 1) ELSE st.ivFwd[p]],
     ivRev |-> [i \in DOMAIN st.ivRev |->
                  IF i >= mn /\ i <= mx
                  THEN i - mn + 1 ELSE st.ivRev[i]],
     oob |-> st.oob \/ (n > 0 /\ st.nIDs + n > Len(st.ivFwd))]

storeRange(st, mn, mx) ==
    LET n == max(0, mx - mn + 1) IN
    [nIDs |-> st.nIDs + n,
     ivFwd |-> [p \in DOMAIN st.ivFwd |->
                  IF p > st.nIDs /\ p <= st.nIDs + n
                  THEN mn + (p - st.nIDs - 1) ELSE st.ivFwd[p]],
     ivRev |-> [i \in DOMAIN st.ivRev |->
                  IF i >= mn /\ i <= mx
                  THEN st.nIDs + (i - mn + 1) ELSE st.ivRev[i]],
     oob |-> st.oob \/ (n > 0 /\ st.nIDs + n > Len(st.ivFwd))]

\* line 112: for (int c=0;c<nRCs;c++)
RECURSIVE secondPass(_, _, _)
secondPass(ppIRs, c, st) ==
    IF c > Len(ppIRs) THEN st
    ELSE secondPass(ppIRs, c + 1, storeRange(st, ppIRs[c].mn, ppIRs[c].mx))

\* the result carries oob: TRUE when the second pass stored past ivFwd's end
IndexBlock_createIndexVectors(b) ==
    LET p1 == firstPass(b.ppIRs, 1,
                        [mnM |-> b.modMin, mxM |-> b.modMax, nIDs |-> 0])
        p2 == secondPass(b.ppIRs, 1,
                         [nIDs |-> 0, ivFwd |-> allocate(1, p1.nIDs),
                          ivRev |-> allocate(p1.mnM, p1.mxM), oob |-> FALSE])
    IN [blk |-> [b EXCEPT !.nIDs = p2.nIDs, !.ivFwd = p2.ivFwd,
                          !.ivRev = p2.ivRev],
        oob |-> p2.oob]

\* lines 143-152: the number of ";"-separated intervals of str2
RECURSIVE countIntervals(_)
countIntervals(str2) ==
    LET p == pos(str2, ";") IN
    IF p = 0 THEN 1 ELSE 1 + countIntervals(substr(str2, p + 1, Len(str2)))

\* lines 158-165: one IndexRange per interval, in text order
RECURSIVE parseIntervals(_, _, _, _, _)
parseIntervals(b, str2, k, nRCs, acc) ==
    IF k >= nRCs
    THEN Append(acc, IndexRange_parse(IndexRange(b.modMin, b.modMax, 0, 0), str2))
    ELSE LET p == pos(str2, ";") IN
         parseIntervals(b, substr(str2, p + 1, Len(str2)), k + 1, nRCs,
             Append(acc, IndexRange_parse(IndexRange(b.modMin, b.modMax, 0, 0),
                                          substr(str2, 1, p - 1))))

\* the result's exit is TRUE when parse ends the process at line 140
IndexBlock_parse(b, str1) ==
    IF substr(str1, 1, 1) # <<"[">>
    THEN [exit |-> TRUE, blk |-> b, oob |-> FALSE]
    ELSE LET str2 == substr(str1, 2, Len(str1) - 1)
             nRCs == countIntervals(str2)
             b1 == [b EXCEPT !.nRCs = nRCs,
                             !.ppIRs = parseIntervals(b, str2, 1, nRCs, <<>>)]
             civ == IndexBlock_createIndexVectors(b1)
         IN [exit |-> FALSE, blk |-> civ.blk, oob |-> civ.oob]

\* lines 186-187: the texts of ranges i..n-1, each followed by ";"
RECURSIVE writeRanges(_, _, _)
writeRanges(ppIRs, i, n) ==
    IF i >= n THEN <<>>
    ELSE IndexRange_write(ppIRs[i]) \o <<";">> \o writeRanges(ppIRs, i + 1, n)

\* line 188 reads ppIRs[nRCs-1]: with no range that is the element before
\* the array
IndexBlock_writeOutside(b) == b.nRCs < 1

\* what a read before the range array can be printed as
StrayRangeTexts == {<<>>, <<"0">>}

IndexBlock_write_Reversed(b) ==
    <<"[">> \o IndexRange_write(b.ppIRs[b.nRCs])
            \o <<";">> \o writeRanges(b.ppIRs, 1, b.nRCs) \o <<"]">>

\* lines 185-189, for a block with at least one range
IndexBlock_write(b) ==
    <<"[">> \o writeRanges(b.ppIRs, 1, b.nRCs)
            \o IndexRange_write(b.ppIRs[b.nRCs]) \o <<"]">>

----------------------------------------------------------------------------
(* Inputs: block texts built from their range texts *)

RECURSIVE joinRanges(_, _)
joinRanges(parts, k) ==
    IF k = Len(parts) THEN parts[k].text
    ELSE parts[k].text \o <<";">> \o joinRanges(parts, k + 1)

BlockInput(parts) ==
    [form |-> "block", parts |-> parts,
     text |-> <<"[">> \o joinRanges(parts, 1) \o <<"]">>]

BlockOperands == -1..MaxBlockOperand

BlockRangeInputs ==
    {SingleInput(a, FALSE) : a \in BlockOperands}
    \cup {PairInput(ab[1], ab[2], FALSE) : ab \in BlockOperands \X BlockOperands}

ExampleBlockInputs ==
    {BlockInput(<<PairInput(1, 3, FALSE), PairInput(2, 5, FALSE)>>),
     BlockInput(<<PairInput(10, 12, FALSE)>>)}

\* a block text whose first or last character is not the bracket: the ranges
\* the author wrote, between the characters open and close
BracketedInput(parts, open, close) ==
    [form |-> "block", parts |-> parts,
     text |-> <<open>> \o joinRanges(parts, 1) \o <<close>>]

MalformedBlockInputs ==
    {BracketedInput(parts, oc[1], oc[2]) :
        parts \in {<<PairInput(1, 2, FALSE)>>,
                   <<SingleInput(2, FALSE), PairInput(1, 2, FALSE)>>},
        oc \in {<<"(", "]">>, <<"1", "]">>, <<"[", ")">>, <<"[", "5">>,
                <<"(", ")">>}}

BlockInputs ==
    {BlockInput(parts) :
        parts \in UNION {[1..n -> BlockRangeInputs] : n \in 1..MaxRanges}}
    \cup ExampleBlockInputs
    \cup MalformedBlockInputs

BlockBounds == {<<1, 5>>, <<1, 20>>, <<0, 2>>, <<1, 2>>}

----------------------------------------------------------------------------
(* Dimension names and sizes (ModelConstants.hpp, ModelConfiguration.cpp) *)

STR_SEX == <<"S", "E", "X">>
STR_MATURITY_STATE == <<"M", "A", "T", "U", "R", "I", "T", "Y", "_", "S", "T", "A", "T", "E">>
STR_SHELL_CONDITION == <<"S", "H", "E", "L", "L", "_", "C", "O", "N", "D", "I", "T", "I", "O", "N">>
STR_SIZE == <<"S", "I", "Z", "E">>
STR_FISHERY == <<"F", "I", "S", "H", "E", "R", "Y">>
STR_SURVEY == <<"S", "U", "R", "V", "E", "Y">>
\* the literal "YEAR" that setType compares with
STR_YEAR == <<"Y", "E", "A", "R">>

nSXs == 2
nMSs == 2
nSCs == 2

\* the statics before the configuration file is read
Unconfigured ==
    [mnYr |-> -1, mxYr |-> -1, nZBs |-> -1, nFsh |-> -1, nSrv |-> -1]

\* the statics after ModelConfiguration::read
Configured ==
    [mnYr |-> 1960, mxYr |-> 1965, nZBs |-> 3, nFsh |-> 4, nSrv |-> 1]

Configurations == {Unconfigured, Configured}

----------------------------------------------------------------------------
(* IndexBlockSet *)

\* IndexBlockSet::IndexBlockSet(): no type, no blocks; modMin and modMax are
\* left unset (gmn, gmx)
IndexBlockSet(gmn, gmx) ==
    [type |-> <<>>, modMin |-> gmn, modMax |-> gmx, nIBs |-> 0, ppIBs |-> <<>>]

\* lines 220-222: the text up to the first "_", or the whole text
dispatchKey(theType) ==
    LET p == pos(theType, "_") IN
    IF p # 0 THEN substr(theType, 1, p - 1) ELSE theType

\* lines 223-257: the bounds of a set s for the dispatch key type, and
\* whether the warning is printed
typeLimits_ResetUnknown(c, s, type) ==
    IF type = STR_YEAR
    THEN [warn |-> FALSE, modMin |-> c.mnYr, modMax |-> c.mxYr]
    ELSE IF type = STR_SEX
    THEN [warn |-> FALSE, modMin |-> 1, modMax |-> nSXs]
    ELSE IF type = STR_MATURITY_STATE
    THEN [warn |-> FALSE, modMin |-> 1, modMax |-> nSXs]
    ELSE IF type = STR_SHELL_CONDITION
    THEN [warn |-> FALSE, modMin |-> 1, modMax |-> nSXs]
    ELSE IF type = STR_SIZE
    THEN [warn |-> FALSE, modMin |-> 1, modMax |-> c.nZBs]
    ELSE IF type = STR_FISHERY
    THEN [warn |-> FALSE, modMin |-> 1, modMax |-> c.nFsh]
    ELSE IF type = STR_SURVEY
    THEN [warn |-> FALSE, modMin |-> 1, modMax |-> c.nSrv]
    ELSE [warn |-> TRUE, modMin |-> 0, modMax |-> 0]

typeLimits(c, s, type) ==
    IF type = STR_YEAR
    THEN [warn |-> FALSE, modMin |-> c.mnYr, modMax |-> c.mxYr]
    ELSE IF type = STR_SEX
    THEN [warn |-> FALSE, modMin |-> 1, modMax |-> nSXs]
    ELSE IF type = STR_MATURITY_STATE
    THEN [warn |-> FALSE, modMin |-> 1, modMax |-> nSXs]
    ELSE IF type = STR_SHELL_CONDITION
    THEN [warn |-> FALSE, modMin |-> 1, modMax |-> nSXs]
    ELSE IF type = STR_SIZE
    THEN [warn |-> FALSE, modMin |-> 1, modMax |-> c.nZBs]
    ELSE IF type = STR_FISHERY
    THEN [warn |-> FALSE, modMin |-> 1, modMax |-> c.nFsh]
    ELSE IF type = STR_SURVEY
    THEN [warn |-> FALSE, modMin |-> 1, modMax |-> c.nSrv]
    ELSE [warn |-> TRUE, modMin |-> s.modMin, modMax |-> s.modMax]

\* the result's warn is TRUE when the warning of lines 252-255 is printed
IndexBlockSet_setType(c, s, theType) ==
    LET type == dispatchKey(theType)
        lim == typeLimits(c, s, type)
    IN [set |-> [s EXCEPT !.type = type, !.modMin = lim.modMin,
                          !.modMax = lim.modMax],
        warn |-> lim.warn]

\* lines 210-212, and lines 270-273 of read: n blocks, each built with the
\* set's bounds
IndexBlockSet_allocate_Unset(s, n) ==
    [s EXCEPT !.nIBs = n, !.ppIBs = [i \in 1..n |-> IndexBlock(0, 0)]]

IndexBlockSet_allocate(s, n) ==
    [s EXCEPT !.nIBs = n,
              !.ppIBs = [i \in 1..n |-> IndexBlock(s.modMin, s.modMax)]]

\* line 276: res, the result of the block's parse, goes to position id.
\* st carries exit (a block's parse ended the process), the set, oob, and
\* warn (the warning of setType was printed)
storeBlock(st, id, res) ==
    IF res.exit THEN [st EXCEPT !.exit = TRUE]
    ELSE [st EXCEPT !.set.ppIBs[id] = res.blk, !.oob = @ \/ res.oob]

\* lines 274-278: pair i of the input goes to the block at position ids[i]
RECURSIVE readBlocks_ByOrder(_, _, _)
readBlocks_ByOrder(st, in, i) ==
    IF i > in.n \/ st.exit THEN st
    ELSE readBlocks_ByOrder(
             storeBlock(st, i,
                        IndexBlock_parse(st.set.ppIBs[i], in.blocks[i].text)),
             in, i + 1)

\* ppIBs[id-1] is taken as it is: for an id outside 1..n it is an element
\* outside the array, the text is parsed into whatever it points to, and no
\* block of the set changes (outside collects such ids)
RECURSIVE readBlocks(_, _, _)
readBlocks(st, in, i) ==
    IF i > in.n \/ st.exit THEN st
    ELSE IF in.ids[i] \notin 1..st.set.nIBs
    THEN readBlocks([st EXCEPT !.outside = @ \cup {in.ids[i]}, !.oob = TRUE],
                    in, i + 1)
    ELSE readBlocks(
             storeBlock(st, in.ids[i],
                        IndexBlock_parse(st.set.ppIBs[in.ids[i]],
                                         in.blocks[i].text)),
             in, i + 1)

\* lines 265-269: the type token in.type is taken from the stream only when
\* the set has no type yet
readType(c, s, in) ==
    IF s.type = <<>> THEN IndexBlockSet_setType(c, s, in.type.text)
    ELSE [set |-> s, warn |-> warned]

\* lines 270-273: the blocks are constructed before any is read
startRead(typed, n) ==
    [exit |-> FALSE, set |-> IndexBlockSet_allocate(typed.set, n),
     oob |-> FALSE, warn |-> typed.warn, outside |-> {}]

\* lines 263-280
IndexBlockSet_read(c, s, in) ==
    readBlocks(startRead(readType(c, s, in), in.n), in, 1)

\* one "id <tab> block" entry of write: os << id << tb << (*ppIBs[at-1]).
\* inArray tells whether element at is one of the n allocated ones; stray
\* tells whether the block's own write read before its range array.  The text
\* of an entry that is outside the array or stray is whatever memory holds.
writeEntry(s, id, at) ==
    IF at \notin 1..Len(s.ppIBs)
    THEN [id |-> id, at |-> at, inArray |-> FALSE, stray |-> FALSE,
          text |-> NoText]
    ELSE IF IndexBlock_writeOutside(s.ppIBs[at])
    THEN [id |-> id, at |-> at, inArray |-> TRUE, stray |-> TRUE,
          text |-> NoText]
    ELSE [id |-> id, at |-> at, inArray |-> TRUE, stray |-> FALSE,
          text |-> IndexBlock_write(s.ppIBs[at])]

\* line 288: the entries of blocks i..n-1
RECURSIVE writeEntries(_, _, _)
writeEntries(s, i, n) ==
    IF i >= n THEN <<>>
    ELSE <<writeEntry(s, i, i)>> \o writeEntries(s, i + 1, n)

\* lines 284-290: the type, the count, the entries of blocks 1..n-1 and then,
\* outside the loop, the entry of block n
IndexBlockSet_write(s) ==
    [written |-> TRUE, op |-> "set", type |-> s.type, count |-> s.nIBs,
     entries |-> writeEntries(s, 1, s.nIBs)
                   \o <<writeEntry(s, s.nIBs, s.nIBs)>>]

\* the write read memory that is no block, or no range, of the set
WroteOutside(out) ==
    \E k \in 1..Len(out.entries) :
       ~out.entries[k].inArray \/ out.entries[k].stray

\* lines 405-432: idxType is compared whole; the result's exit is TRUE when
\* the final else branch ends the process at line 430 (mn and mx, which
\* belong to the caller, are then as they were: mn0, mx0)
getIndexLimits(c, idxType, mn0, mx0) ==
    IF idxType = STR_YEAR
    THEN [exit |-> FALSE, mn |-> c.mnYr, mx |-> c.mxYr]
    ELSE IF idxType = STR_SIZE
    THEN [exit |-> FALSE, mn |-> 1, mx |-> c.nZBs]
    ELSE IF idxType = STR_SEX
    THEN [exit |-> FALSE, mn |-> 1, mx |-> nSXs]
    ELSE IF idxType = STR_MATURITY_STATE
    THEN [exit |-> FALSE, mn |-> 1, mx |-> nMSs]
    ELSE IF idxType = STR_SHELL_CONDITION
    THEN [exit |-> FALSE, mn |-> 1, mx |-> nSCs]
    ELSE [exit |-> TRUE, mn |-> mn0, mx |-> mx0]

\* getBlock(id): the block that ppIBs[id-1] points to
IndexBlockSet_getBlock(s, id) == s.ppIBs[id]

\* IndexBlockSets::IndexBlockSets(): no sets
IndexBlockSets == [nIBSs |-> 0, ppIBSs |-> <<>>]

NoCall == [op |-> "none", calls |-> 0, in |-> NoInput, preMin |-> 0,
           preMax |-> 0, n |-> 0, at |-> <<0, 0>>, outside |-> {}]

NoSetsCall ==
    [op |-> "none", in |-> NoInput, given |-> <<>>, created |-> 0,
     outside |-> {}]

NoResult == [asked |-> FALSE]

\* no IndexBlockSet and no IndexBlockSets is in use
IdleSets ==
    /\ cfg = Unconfigured
    /\ ibs = IndexBlockSet(0, 0)
    /\ sin = NoCall
    /\ warned = FALSE
    /\ ibss = IndexBlockSets
    /\ ssin = NoSetsCall
    /\ got = NoResult

----------------------------------------------------------------------------
(* Inputs: type texts, and the bodies an IndexBlockSet is read from *)

\* a type text as an author writes it: the dimension's name, then a suffix
\* that is empty or starts with "_"
TypeInput(key, suffix) ==
    [form |-> "type", key |-> key, suffix |-> suffix, text |-> key \o suffix]

STR_FOO == <<"F", "O", "O">>

TypeInputs ==
    {TypeInput(k, <<>>) :
        k \in {STR_YEAR, STR_SEX, STR_MATURITY_STATE, STR_SHELL_CONDITION,
               STR_SIZE, STR_FISHERY, STR_SURVEY, STR_FOO}}
    \cup {TypeInput(STR_YEAR, <<"_", "R", "E", "C", "R", "U", "I", "T", "M", "E", "N", "T">>),
          TypeInput(STR_FOO, <<"_", "B", "A", "R">>)}

\* the block texts that sets are read from
SetBlockInputs ==
    <<BlockInput(<<PairInput(1, 2, FALSE)>>),
      BlockInput(<<SingleInput(2, FALSE), SingleInput(1, FALSE)>>),
      BlockInput(<<PairInput(-1, -1, FALSE)>>)>>

\* the orders in which the ids 1..n can arrive
IdOrders(n) ==
    {f \in [1..n -> 1..n] : \A i, j \in 1..n : f[i] = f[j] => i = j}

\* a block count, then that many (id, blockText) pairs
SetBody(n, ids, blocks) ==
    [form |-> "set", n |-> n, ids |-> ids, blocks |-> blocks]

\* n block texts, taken in turn from SetBlockInputs, starting after the k-th
BlockTexts(n, k) ==
    [i \in 1..n |-> SetBlockInputs[((i + k - 1) % Len(SetBlockInputs)) + 1]]

ExampleSetBodies == {SetBody(3, <<2, 1, 3>>, BlockTexts(3, 0))}

\* the ids 1..n in order with one of them replaced: by 0, by n + 1, or by
\* another id of 1..n (which then arrives twice while one never arrives)
FaultyIds(n) ==
    UNION {{[[j \in 1..n |-> j] EXCEPT ![i] = v] : v \in (0..(n + 1)) \ {i}} :
           i \in 1..n}

SetBodies ==
    UNION {{SetBody(n, ids, BlockTexts(n, k)) :
               ids \in IdOrders(n), k \in {0, 1}} :
           n \in 0..MaxBlocks}
    \cup ExampleSetBodies

\* bodies whose ids are not the ids 1..n each once
FaultyIdBodies ==
    UNION {{SetBody(n, ids, BlockTexts(n, 0)) : ids \in FaultyIds(n)} :
           n \in 0..MaxBlocks}

\* the input of read: a type token when the set has none yet, then the body
SetReadInput(t, body) ==
    [form |-> "set", type |-> t, n |-> body.n, ids |-> body.ids,
     blocks |-> body.blocks]

----------------------------------------------------------------------------
(* IndexBlockSets *)

\* the keywords that read compares with (lines 358 and 370)
STR_INDEX_BLOCK_SETS == <<"I", "N", "D", "E", "X", "_", "B", "L", "O", "C", "K", "_", "S", "E", "T", "S">>
STR_INDEX_BLOCK_SET == <<"I", "N", "D", "E", "X", "_", "B", "L", "O", "C", "K", "_", "S", "E", "T">>

\* an element of new IndexBlockSet*[n] that nothing has been stored in
Unset == [unset |-> TRUE]

\* lines 313-317: n sets, each as its constructor leaves it
IndexBlockSets_createIBSs(n, g) ==
    [nIBSs |-> n, ppIBSs |-> [i \in 1..n |-> IndexBlockSet(g, g)]]

\* lines 324-328; the result's warn is the warning of the set's setType
IndexBlockSets_setType(c, ss, i, type) ==
    LET res == IndexBlockSet_setType(c, ss.ppIBSs[i], type) IN
    [sets |-> [ss EXCEPT !.ppIBSs[i] = res.set], warn |-> res.warn]

\* p->getType() for the pointer in slot s; a slot that nothing was stored in
\* yields no type that a caller can ask for
typeAt(ss, s) ==
    IF "unset" \in DOMAIN ss.ppIBSs[s] THEN <<"?">> ELSE ss.ppIBSs[s].type

\* lines 339-346: the slot of the set that p points to when the loop ends,
\* 0 for the null pointer
RECURSIVE scanSets(_, _, _, _)
scanSets(ss, type, s, p) ==
    IF s > ss.nIBSs THEN p
    ELSE IF typeAt(ss, s) = type THEN s
    ELSE scanSets(ss, type, s + 1, s)

\* lines 337-348
IndexBlockSets_getIndexBlockSet(ss, type) == scanSets(ss, type, 1, 0)

\* TRUE when the loop of lines 341-345 reads the type of a set through a
\* pointer that was never stored
scanReadsUnset(ss, type) ==
    \E s \in 1..ss.nIBSs :
        /\ "unset" \in DOMAIN ss.ppIBSs[s]
        /\ \A r \in 1..(s - 1) : typeAt(ss, r) # type

\* lines 371-373 for slot k: rd is the result of reading the new set.  st
\* carries exit (the process has ended), nIBSs, the slots, created (the sets
\* constructed so far), outside (the slot numbers outside 1..n stored to)
\* and oob.  ub is what a store to ppIBSs[k-1] with k < 1 does in this
\* build: "crash", or "store" when it lands outside the array and the run
\* goes on.
storeSet(st, k, rd, g, ub) ==
    IF k < 1
    THEN IF ub = "crash"
         THEN [st EXCEPT !.exit = TRUE, !.created = @ + 1]
         ELSE [st EXCEPT !.exit = rd.exit, !.created = @ + 1,
                         !.outside = @ \cup {k}, !.oob = @ \/ rd.oob]
    ELSE [st EXCEPT !.exit = rd.exit, !.created = @ + 1,
                    !.ppIBSs[k] = IF rd.exit THEN IndexBlockSet(g, g) ELSE rd.set,
                    !.oob = @ \/ rd.oob]

\* lines 367-383: triple i of the input
RECURSIVE readSets(_, _, _, _, _, _)
readSets(c, st, in, i, g, ub) ==
    IF i > in.n \/ st.exit THEN st
    ELSE IF in.triples[i].kw = STR_INDEX_BLOCK_SET /\ in.triples[i].k <= in.n
    THEN readSets(c,
                  storeSet(st, in.triples[i].k,
                           IndexBlockSet_read(c, IndexBlockSet(g, g),
                                              in.triples[i].body),
                           g, ub),
                  in, i + 1, g, ub)
    ELSE [st EXCEPT !.exit = TRUE]

\* lines 353-386
IndexBlockSets_read(c, ss, in, g, ub) ==
    IF in.keyword # STR_INDEX_BLOCK_SETS
    THEN [exit |-> TRUE, nIBSs |-> ss.nIBSs, ppIBSs |-> ss.ppIBSs,
          created |-> 0, outside |-> {}, oob |-> FALSE]
    ELSE IF in.n > 0
    THEN readSets(c, [exit |-> FALSE, nIBSs |-> in.n,
                      ppIBSs |-> [i \in 1..in.n |-> Unset],
                      created |-> 0, outside |-> {}, oob |-> FALSE],
                  in, 1, g, ub)
    ELSE [exit |-> FALSE, nIBSs |-> in.n, ppIBSs |-> ss.ppIBSs,
          created |-> 0, outside |-> {}, oob |-> FALSE]

\* one "INDEX_BLOCK_SET <tab> id / set" entry of write:
\* os << "INDEX_BLOCK_SET" << tb << id << endl << (*ppIBSs[at-1]).  inArray
\* tells whether element at is one of the n allocated slots, populated
\* whether a set was stored in it; set is what the set's own write does.
writeSetEntry(ss, id, at) ==
    IF at \notin 1..Len(ss.ppIBSs)
    THEN [id |-> id, at |-> at, inArray |-> FALSE, populated |-> FALSE,
          set |-> NoOutput]
    ELSE IF "unset" \in DOMAIN ss.ppIBSs[at]
    THEN [id |-> id, at |-> at, inArray |-> TRUE, populated |-> FALSE,
          set |-> NoOutput]
    ELSE [id |-> id, at |-> at, inArray |-> TRUE, populated |-> TRUE,
          set |-> IndexBlockSet_write(ss.ppIBSs[at])]

\* line 394: the entries of the sets i..n-1
RECURSIVE writeSetEntries(_, _, _)
writeSetEntries(ss, i, n) ==
    IF i >= n THEN <<>>
    ELSE <<writeSetEntry(ss, i, i)>> \o writeSetEntries(ss, i + 1, n)

\* lines 390-397: the keyword, the count and, when the count is not 0, the
\* entries of the sets 1..n-1 and then the entry of set n
IndexBlockSets_write(ss) ==
    [written |-> TRUE, op |-> "sets", count |-> ss.nIBSs,
     entries |-> IF ss.nIBSs # 0
                 THEN writeSetEntries(ss, 1, ss.nIBSs)
                         \o <<writeSetEntry(ss, ss.nIBSs, ss.nIBSs)>>
                 ELSE <<>>]

\* the write read memory that is no populated slot of the collection, or a
\* set's write read memory that is no block or range of the set
SetsWroteOutside(out) ==
    \E k \in 1..Len(out.entries) :
       \/ ~out.entries[k].populated
       \/ WroteOutside(out.entries[k].set)

----------------------------------------------------------------------------
(* Inputs: the texts an IndexBlockSets is read from *)

\* the type texts given to the sets of a collection, and asked for
SetsTypeInputs ==
    {TypeInput(STR_YEAR, <<>>), TypeInput(STR_YEAR, <<"_", "R", "E", "C", "R", "U", "I", "T", "M", "E", "N", "T">>),
     TypeInput(STR_SIZE, <<>>), TypeInput(STR_FOO, <<>>)}

\* the sets that collections are read from: type, count, ids and block texts
SetInputs ==
    {SetReadInput(TypeInput(STR_YEAR, <<"_", "R", "E", "C", "R", "U", "I", "T", "M", "E", "N", "T">>),
                  SetBody(2, <<2, 1>>, BlockTexts(2, 0))),
     SetReadInput(TypeInput(STR_SIZE, <<>>), SetBody(1, <<1>>, BlockTexts(1, 0)))}

\* a (keyword, slot, set) triple
Triple(kw, k, body) == [kw |-> kw, k |-> k, body |-> body]

\* triples for a collection of n sets: any slot from 0 to n + 1 under the
\* right keyword, and slot 1 under a wrong one
Triples(n) ==
    {Triple(STR_INDEX_BLOCK_SET, k, b) : k \in 0..(n + 1), b \in SetInputs}
    \cup {Triple(STR_INDEX_BLOCK_SETS, 1, b) : b \in SetInputs}

SetsInput(keyword, n, triples) ==
    [form |-> "sets", keyword |-> keyword, n |-> n, triples |-> triples]

\* "INDEX_BLOCK_SETS 1 INDEX_BLOCK_SET 1 YEAR 2 1 [1960:1962]
\* 2 [-1:1959;1963:-1]"
EndToEndInput ==
    SetsInput(STR_INDEX_BLOCK_SETS, 1,
        <<Triple(STR_INDEX_BLOCK_SET, 1,
             SetReadInput(TypeInput(STR_YEAR, <<>>),
                SetBody(2, <<1, 2>>,
                   <<BlockInput(<<PairInput(1960, 1962, FALSE)>>),
                     BlockInput(<<PairInput(-1, 1959, FALSE),
                                  PairInput(1963, -1, FALSE)>>)>>)))>>)

\* the same collection with the two (id, block) pairs in the other order
EndToEndSwapped ==
    SetsInput(STR_INDEX_BLOCK_SETS, 1,
        <<Triple(STR_INDEX_BLOCK_SET, 1,
             SetReadInput(TypeInput(STR_YEAR, <<>>),
                SetBody(2, <<2, 1>>,
                   <<BlockInput(<<PairInput(-1, 1959, FALSE),
                                  PairInput(1963, -1, FALSE)>>),
                     BlockInput(<<PairInput(1960, 1962, FALSE)>>)>>)))>>)

EndToEndInputs == {EndToEndInput, EndToEndSwapped}

SetsInputs ==
    UNION {{SetsInput(STR_INDEX_BLOCK_SETS, n, trs) :
               trs \in [1..n -> Triples(n)]} : n \in -1..MaxSets}
    \cup {SetsInput(STR_INDEX_BLOCK_SET, 1,
                    <<Triple(STR_INDEX_BLOCK_SET, 1, b)>>) : b \in SetInputs}

\* the type text that the input gives slot i: that of the last triple naming i
GivenBy(in) ==
    [i \in 1..in.n |->
        LET J == {j \in 1..in.n : in.triples[j].k = i} IN
        IF J = {} THEN NoInput
        ELSE in.triples[CHOOSE j \in J : \A h \in J : h <= j].body.type]

----------------------------------------------------------------------------
(* The IndexRange specification *)

InitRange ==
    /\ status = "run"
    /\ \E b \in RangeBounds : \E g \in UninitInts :
          rng = IndexRange(b[1], b[2], g, g)
    /\ rin = NoInput
    /\ rout = NoText
    /\ rng2 = NoRange
    /\ blk = IndexBlock(0, 0)
    /\ bin = NoInput
    /\ oob = FALSE
    /\ IdleSets
    /\ IdleWrites

\* rng.parse(text)
RangeParse ==
    /\ status = "run"
    /\ \E in \in RangeInputs :
          /\ rng' = IndexRange_parse(rng, in.text)
          /\ rin' = in
    /\ rout' = NoText
    /\ rng2' = NoRange
    /\ UNCHANGED <<status, blk, bin, oob>>
    /\ UNCHANGED <<cfg, ibs, sin, warned, ibss, ssin, got>>
    /\ UNCHANGED <<bout, blk2, sout, limits>>

\* rng.write(os), on a parsed range
RangeWrite ==
    /\ status = "run"
    /\ rin # NoInput
    /\ rout' = IndexRange_write(rng)
    /\ rng2' = NoRange
    /\ UNCHANGED <<status, rng, rin, blk, bin, oob>>
    /\ UNCHANGED <<cfg, ibs, sin, warned, ibss, ssin, got>>
    /\ UNCHANGED <<bout, blk2, sout, limits>>

\* a new IndexRange with rng's (modMin, modMax) parses the written text
RangeReadBack ==
    /\ status = "run"
    /\ rout # NoText
    /\ \E g \in UninitInts :
          rng2' = IndexRange_parse(IndexRange(rng.modMin, rng.modMax, g, g), rout)
    /\ UNCHANGED <<status, rng, rin, rout, blk, bin, oob>>
    /\ UNCHANGED <<cfg, ibs, sin, warned, ibss, ssin, got>>
    /\ UNCHANGED <<bout, blk2, sout, limits>>

NextRange == RangeParse \/ RangeWrite \/ RangeReadBack

SpecRange == InitRange /\ [][NextRange]_vars

\* rng.parse(text) on a text with an operand that is not an integer
RangeParseMalformed ==
    /\ status = "run"
    /\ \E in \in MalformedRangeInputs :
          /\ rin' = in
          /\ IF IndexRange_parseExits(in.text)
             THEN status' = "exit" /\ rng' = rng
             ELSE status' = "run" /\ rng' = IndexRange_parse(rng, in.text)
    /\ rout' = NoText
    /\ rng2' = NoRange
    /\ UNCHANGED <<blk, bin, oob>>
    /\ UNCHANGED <<cfg, ibs, sin, warned, ibss, ssin, got>>
    /\ UNCHANGED <<bout, blk2, sout, limits>>

NextRangeMalformed == RangeParseMalformed \/ RangeWrite \/ RangeReadBack

SpecRangeMalformed == InitRange /\ [][NextRangeMalformed]_vars

----------------------------------------------------------------------------
(* The IndexBlock specification *)

InitBlock ==
    /\ status = "run"
    /\ rng = IndexRange(0, 0, 0, 0)
    /\ rin = NoInput
    /\ rout = NoText
    /\ rng2 = NoRange
    /\ \E b \in BlockBounds : blk = IndexBlock(b[1], b[2])
    /\ bin = NoInput
    /\ oob = FALSE
    /\ IdleSets
    /\ IdleWrites

\* blk.parse(text), on a block nothing was written from yet.  When the second pass of createIndexVectors reaches a
\* position past the end of ivFwd, a bounds-checked build ends the process
\* there and an unchecked build stores outside the vector and goes on.
BlockParse ==
    /\ status = "run"
    /\ bin = NoInput
    /\ bout = NoText
    /\ \E in \in BlockInputs :
          LET res == IndexBlock_parse(blk, in.text) IN
          /\ bin' = in
          /\ IF res.exit
             THEN status' = "exit" /\ blk' = blk /\ oob' = oob
             ELSE IF res.oob
             THEN \/ status' = "exit" /\ blk' = res.blk /\ oob' = oob
                  \/ status' = "run" /\ blk' = res.blk /\ oob' = TRUE
             ELSE status' = "run" /\ blk' = res.blk /\ oob' = oob
    /\ UNCHANGED <<rng, rin, rout, rng2>>
    /\ UNCHANGED <<cfg, ibs, sin, warned, ibss, ssin, got>>
    /\ UNCHANGED <<bout, blk2, sout, limits>>

\* os << blk.  A block that was never parsed has no range, and line 188
\* then prints what precedes the range array: the process ends there or
\* prints a stray text.
BlockWrite ==
    /\ status = "run"
    /\ bout = NoText
    /\ IF IndexBlock_writeOutside(blk)
       THEN \/ status' = "exit" /\ bout' = bout /\ oob' = oob
            \/ /\ status' = "run"
               /\ \E t \in StrayRangeTexts : bout' = <<"[">> \o t \o <<"]">>
               /\ oob' = TRUE
       ELSE status' = "run" /\ bout' = IndexBlock_write(blk) /\ oob' = oob
    /\ UNCHANGED <<rng, rin, rout, rng2, blk, bin>>
    /\ UNCHANGED <<cfg, ibs, sin, warned, ibss, ssin, got>>
    /\ UNCHANGED <<blk2, sout, limits>>

\* a second block with blk's bounds parses the text blk wrote
BlockReadBack ==
    /\ status = "run"
    /\ bout # NoText
    /\ blk2 = NoBlock
    /\ \E res \in {IndexBlock_parse(IndexBlock(blk.modMin, blk.modMax), bout)} :
          IF res.exit
          THEN status' = "exit" /\ blk2' = blk2 /\ oob' = oob
          ELSE IF res.oob
          THEN \/ status' = "exit" /\ blk2' = res.blk /\ oob' = oob
               \/ status' = "run" /\ blk2' = res.blk /\ oob' = TRUE
          ELSE status' = "run" /\ blk2' = res.blk /\ oob' = oob
    /\ UNCHANGED <<rng, rin, rout, rng2, blk, bin>>
    /\ UNCHANGED <<cfg, ibs, sin, warned, ibss, ssin, got>>
    /\ UNCHANGED <<bout, sout, limits>>

NextBlock == BlockParse \/ BlockWrite \/ BlockReadBack

SpecBlock == InitBlock /\ [][NextBlock]_vars

----------------------------------------------------------------------------
(* The IndexBlockSet specification *)

InitSet ==
    /\ status = "run"
    /\ rng = IndexRange(0, 0, 0, 0)
    /\ rin = NoInput
    /\ rout = NoText
    /\ rng2 = NoRange
    /\ blk = IndexBlock(0, 0)
    /\ bin = NoInput
    /\ oob = FALSE
    /\ cfg \in Configurations
    /\ \E g \in UninitInts : ibs = IndexBlockSet(g, g)
    /\ sin = NoCall
    /\ warned = FALSE
    /\ ibss = IndexBlockSets
    /\ ssin = NoSetsCall
    /\ got = NoResult
    /\ IdleWrites

\* ibs.setType(text)
SetSetType ==
    /\ status = "run"
    /\ sin.calls < MaxCalls
    /\ sout = NoOutput
    /\ \E t \in TypeInputs :
          LET res == IndexBlockSet_setType(cfg, ibs, t.text) IN
          /\ ibs' = res.set
          /\ warned' = res.warn
          /\ sin' = [sin EXCEPT !.op = "setType", !.calls = @ + 1, !.in = t,
                                !.preMin = ibs.modMin, !.preMax = ibs.modMax]
    /\ UNCHANGED <<status, rng, rin, rout, rng2, blk, bin, oob>>
    /\ UNCHANGED <<cfg, ibss, ssin, got>>
    /\ UNCHANGED <<bout, blk2, sout, limits>>

\* ibs.allocate(n)
SetAllocate ==
    /\ status = "run"
    /\ sin.calls < MaxCalls
    /\ sout = NoOutput
    /\ \E n \in 0..MaxBlocks :
          /\ ibs' = IndexBlockSet_allocate(ibs, n)
          /\ sin' = [sin EXCEPT !.op = "allocate", !.calls = @ + 1,
                                !.in = [form |-> "count", n |-> n],
                                !.preMin = ibs.modMin, !.preMax = ibs.modMax,
                                !.n = n, !.at = <<ibs.modMin, ibs.modMax>>]
    /\ UNCHANGED <<status, rng, rin, rout, rng2, blk, bin, oob>>
    /\ UNCHANGED <<cfg, warned, ibss, ssin, got>>
    /\ UNCHANGED <<bout, blk2, sout, limits>>

\* is >> ibs for a body of the set bodies.  A store past the end of a block's
\* ivFwd, or the use of an element outside the block array, ends the process
\* in a bounds-checked build and goes unnoticed in an unchecked one.
SetReadFrom(bodies) ==
    /\ status = "run"
    /\ sin.calls < MaxCalls
    /\ sout = NoOutput
    /\ \E body \in bodies :
       \E t \in (IF ibs.type = <<>> THEN TypeInputs ELSE {NoInput}) :
       \E in \in {SetReadInput(t, body)} :
       \E res \in {IndexBlockSet_read(cfg, ibs, in)} :
          /\ sin' = [sin EXCEPT !.op = "read", !.calls = @ + 1, !.in = in,
                                !.preMin = ibs.modMin, !.preMax = ibs.modMax,
                                !.n = in.n,
                                !.at = <<res.set.modMin, res.set.modMax>>,
                                !.outside = res.outside]
          /\ warned' = res.warn
          /\ IF res.exit
             THEN status' = "exit" /\ ibs' = ibs /\ oob' = oob
             ELSE IF res.oob
             THEN \/ status' = "exit" /\ ibs' = res.set /\ oob' = oob
                  \/ status' = "run" /\ ibs' = res.set /\ oob' = TRUE
             ELSE status' = "run" /\ ibs' = res.set /\ oob' = oob
    /\ UNCHANGED <<rng, rin, rout, rng2, blk, bin>>
    /\ UNCHANGED <<cfg, ibss, ssin, got>>
    /\ UNCHANGED <<bout, blk2, sout, limits>>

\* os << ibs, the last thing done with the set.  When write reads an element
\* outside the block array, or a block's write reads before its range array,
\* the process ends there or prints what that memory holds.
SetWrite ==
    /\ status = "run"
    /\ sout = NoOutput
    /\ \E res \in {IndexBlockSet_write(ibs)} :
          /\ sout' = res
          /\ sin' = [sin EXCEPT !.op = "write"]
          /\ IF WroteOutside(res)
             THEN status' \in {"exit", "run"}
             ELSE status' = "run"
    /\ UNCHANGED <<rng, rin, rout, rng2, blk, bin, oob>>
    /\ UNCHANGED <<cfg, ibs, warned, ibss, ssin, got>>
    /\ UNCHANGED <<bout, blk2, limits>>

SetRead == SetReadFrom(SetBodies)

NextSet == SetSetType \/ SetAllocate \/ SetRead \/ SetWrite

SpecSet == InitSet /\ [][NextSet]_vars

----------------------------------------------------------------------------
(* The specification of IndexBlockSet reads with faulty ids *)

SetReadFaultyIds == SetReadFrom(FaultyIdBodies)

NextSetIds == SetReadFaultyIds \/ SetWrite

SpecSetIds == InitSet /\ [][NextSetIds]_vars

----------------------------------------------------------------------------
(* The getIndexLimits specification *)

\* the number of getIndexLimits calls made so far
LimitsCalls == IF limits = NoLimits THEN 0 ELSE limits.calls

\* tcsam::getIndexLimits(idxType, mn, mx), with the caller's mn and mx not
\* yet set
GetIndexLimits ==
    /\ status = "run"
    /\ LimitsCalls < MaxCalls
    /\ \E t \in TypeInputs, g \in UninitInts :
       \E res \in {getIndexLimits(cfg, t.text, g, g)} :
          /\ limits' = [asked |-> TRUE, calls |-> LimitsCalls + 1,
                        idxType |-> t.text, mn0 |-> g,
                        mn |-> res.mn, mx |-> res.mx]
          /\ status' = IF res.exit THEN "exit" ELSE "run"
    /\ UNCHANGED <<rng, rin, rout, rng2, blk, bin, oob>>
    /\ UNCHANGED <<cfg, ibs, sin, warned, ibss, ssin, got>>
    /\ UNCHANGED <<bout, blk2, sout>>

NextLimits == GetIndexLimits

SpecLimits == InitSet /\ [][NextLimits]_vars

----------------------------------------------------------------------------
(* The IndexBlockSets specification *)

InitSets ==
    /\ status = "run"
    /\ rng = IndexRange(0, 0, 0, 0)
    /\ rin = NoInput
    /\ rout = NoText
    /\ rng2 = NoRange
    /\ blk = IndexBlock(0, 0)
    /\ bin = NoInput
    /\ oob = FALSE
    /\ cfg \in Configurations
    /\ ibs = IndexBlockSet(0, 0)
    /\ sin = NoCall
    /\ warned = FALSE
    /\ ibss = IndexBlockSets
    /\ ssin = NoSetsCall
    /\ got = NoResult
    /\ IdleWrites

\* ibss.createIBSs(n)
SetsCreate ==
    /\ status = "run"
    /\ ssin.op = "none"
    /\ sout = NoOutput
    /\ \E n \in 0..MaxSets : \E g \in UninitInts :
          /\ ibss' = IndexBlockSets_createIBSs(n, g)
          /\ ssin' = [NoSetsCall EXCEPT !.op = "create",
                                        !.given = [i \in 1..n |-> NoInput]]
    /\ got' = NoResult
    /\ UNCHANGED <<status, rng, rin, rout, rng2, blk, bin, oob>>
    /\ UNCHANGED <<cfg, ibs, sin, warned>>
    /\ UNCHANGED <<bout, blk2, sout, limits>>

\* ibss.setType(i, text), on a slot that holds a set
SetsSetType ==
    /\ status = "run"
    /\ ssin.op # "none"
    /\ sout = NoOutput
    /\ \E i \in 1..ibss.nIBSs : \E t \in SetsTypeInputs :
          /\ "unset" \notin DOMAIN ibss.ppIBSs[i]
          /\ \E res \in {IndexBlockSets_setType(cfg, ibss, i, t.text)} :
                ibss' = res.sets /\ warned' = res.warn
          /\ ssin' = [ssin EXCEPT !.op = "setType", !.given[i] = t]
    /\ got' = NoResult
    /\ UNCHANGED <<status, rng, rin, rout, rng2, blk, bin, oob>>
    /\ UNCHANGED <<cfg, ibs, sin>>
    /\ UNCHANGED <<bout, blk2, sout, limits>>

\* is >> ibss for an input of the set inputs.  ub is what this build does on
\* a store to ppIBSs[k-1], k < 1.
SetsReadFrom(inputs) ==
    /\ status = "run"
    /\ ssin.op = "none"
    /\ sout = NoOutput
    /\ \E in \in inputs : \E g \in UninitInts : \E ub \in {"crash", "store"} :
       \E res \in {IndexBlockSets_read(cfg, ibss, in, g, ub)} :
          /\ ibss' = [nIBSs |-> res.nIBSs, ppIBSs |-> res.ppIBSs]
          /\ ssin' = [op |-> "read", in |-> in, given |-> GivenBy(in),
                      created |-> res.created, outside |-> res.outside]
          /\ IF res.exit
             THEN status' = "exit" /\ oob' = oob
             ELSE IF res.oob
             THEN \/ status' = "exit" /\ oob' = oob
                  \/ status' = "run" /\ oob' = TRUE
             ELSE status' = "run" /\ oob' = oob
    /\ got' = NoResult
    /\ UNCHANGED <<rng, rin, rout, rng2, blk, bin>>
    /\ UNCHANGED <<cfg, ibs, sin, warned>>
    /\ UNCHANGED <<bout, blk2, sout, limits>>

\* ibss.getIndexBlockSet(text).  Reading the type of a set through a pointer
\* that was never stored ends the process, or finds a type that differs.
SetsGetByType ==
    /\ status = "run"
    /\ ssin.op # "none"
    /\ sout = NoOutput
    /\ \E t \in SetsTypeInputs :
          \/ /\ got' = [asked |-> TRUE, type |-> t,
                         slot |-> IndexBlockSets_getIndexBlockSet(ibss, t.text)]
             /\ status' = status
          \/ /\ scanReadsUnset(ibss, t.text)
             /\ got' = NoResult
             /\ status' = "exit"
    /\ UNCHANGED <<rng, rin, rout, rng2, blk, bin, oob>>
    /\ UNCHANGED <<cfg, ibs, sin, warned, ibss, ssin>>
    /\ UNCHANGED <<bout, blk2, sout, limits>>

SetsRead == SetsReadFrom(SetsInputs)

\* os << ibss, the last thing done with the collection.  When write reads an
\* element outside the slot array or a slot that nothing was stored in, or a
\* set's own write reads outside its blocks, the process ends there or prints
\* what that memory holds.
SetsWrite ==
    /\ status = "run"
    /\ sout = NoOutput
    /\ \E res \in {IndexBlockSets_write(ibss)} :
          /\ sout' = res
          /\ IF SetsWroteOutside(res)
             THEN status' \in {"exit", "run"}
             ELSE status' = "run"
    /\ UNCHANGED <<rng, rin, rout, rng2, blk, bin, oob>>
    /\ UNCHANGED <<cfg, ibs, sin, warned, ibss, ssin, got>>
    /\ UNCHANGED <<bout, blk2, limits>>

NextSets ==
    SetsCreate \/ SetsSetType \/ SetsRead \/ SetsGetByType \/ SetsWrite

SpecSets == InitSets /\ [][NextSets]_vars

----------------------------------------------------------------------------
(* The end-to-end specification: a collection read from the example text *)

SetsReadEndToEnd == SetsReadFrom(EndToEndInputs)

NextEndToEnd == SetsReadEndToEnd \/ SetsSetType \/ SetsGetByType

SpecEndToEnd == InitSets /\ [][NextEndToEnd]_vars

----------------------------------------------------------------------------
(* Properties of IndexRange, checked under SpecRange *)

RParsed == rin # NoInput

RWritten == rout # NoText

RReadBack == rng2 # NoRange

\* C4, as stated: after every parse mn <= mx, the index sequence has
\* mx - mn + 1 elements and they are mn, mn+1, ..., mx.
C4_Original ==
    RParsed =>
        /\ rng.mn <= rng.mx
        /\ Len(rng.iv) = rng.mx - rng.mn + 1
        /\ \A k \in 1..Len(rng.iv) : rng.iv[k] = rng.mn + (k - 1)

\* C4, amended: after every parse the index sequence has max(0, mx - mn + 1)
\* elements, which are mn, mn+1, ..., mx in strictly increasing order; mn <= mx
\* holds for the single-operand form, and is not guaranteed for "x:y".
C4_Amended ==
    RParsed =>
        /\ Len(rng.iv) = max(0, rng.mx - rng.mn + 1)
        /\ \A k \in 1..Len(rng.iv) : rng.iv[k] = rng.mn + (k - 1)
        /\ \A k \in 1..(Len(rng.iv) - 1) : rng.iv[k] < rng.iv[k + 1]
        /\ rng.mn <= rng.mx => rng.iv # <<>> /\ rng.iv[Len(rng.iv)] = rng.mx
        /\ rin.form = "x" => rng.mn <= rng.mx

\* a parse of "x:y" that leaves mn > mx and an empty index sequence
C4_Witness ==
    RParsed /\ rin.form = "x:y" /\ rng.mn > rng.mx /\ rng.iv = <<>>

\* C5: parse of "x:y" yields mn = modMin if x < 0 else x, and mx = modMax if
\* y < 0 else y; with (1950, 2020), "-1:2000" yields (1950, 2000) and
\* "1980:-1" yields (1980, 2020).
C5_DefaultSubstitution ==
    /\ RParsed /\ rin.form = "x:y" =>
          /\ rng.mn = (IF rin.x < 0 THEN rng.modMin ELSE rin.x)
          /\ rng.mx = (IF rin.y < 0 THEN rng.modMax ELSE rin.y)
    /\ RParsed /\ rng.modMin = 1950 /\ rng.modMax = 2020
         /\ rin.text = <<"-", "1", ":", "2", "0", "0", "0">>
         => rng.mn = 1950 /\ rng.mx = 2000
    /\ RParsed /\ rng.modMin = 1950 /\ rng.modMax = 2020
         /\ rin.text = <<"1", "9", "8", "0", ":", "-", "1">>
         => rng.mn = 1980 /\ rng.mx = 2020

\* "1980:-1" has been parsed by a range built with (1950, 2020)
C5_Witness ==
    /\ RParsed /\ rng.modMin = 1950 /\ rng.modMax = 2020
    /\ rin.text = <<"1", "9", "8", "0", ":", "-", "1">>
    /\ rng.mx = 2020 /\ Len(rng.iv) = 41

\* C6, as stated: in both forms a negative first operand is replaced by
\* modMin, so after parsing a text whose x is negative, mn = modMin.
C6_Claim ==
    RParsed /\ rin.x < 0 => rng.mn = rng.modMin

\* C7, as stated: for a text with no negative operand, write after parse
\* emits exactly the text.
C7_Original ==
    RWritten /\ rin.x >= 0 /\ rin.y >= 0 => rout = rin.text

\* C7, amended: for a text with no negative operand and no leading zeros,
\* write after parse emits exactly the text when it is "a", or "a:b" with
\* a < b; for "a:b" with a >= b it emits "a" alone.
C7_Amended ==
    RWritten /\ rin.x >= 0 /\ rin.y >= 0 /\ ~rin.pad =>
        IF rin.form = "x" \/ rin.x < rin.y
        THEN rout = rin.text
        ELSE rout = IntStr(rin.x)

\* "5:5" has been parsed and written, as "5"
C7_Witness ==
    /\ RWritten /\ rin.text = <<"5", ":", "5">>
    /\ rout = <<"5">>

\* C8, as stated: parsing the written text of any parsed range into a range
\* with the same (modMin, modMax) reproduces mn, mx and the index sequence.
C8_Original ==
    RReadBack =>
        rng2.mn = rng.mn /\ rng2.mx = rng.mx /\ rng2.iv = rng.iv

\* C8, amended: the same, for the parsed ranges with mn <= mx (singleton and
\* multi-element ranges); a range with mn > mx is written as "mn" and reads
\* back as the singleton mn.
C8_Amended ==
    /\ RReadBack /\ rng.mn <= rng.mx =>
          rng2.mn = rng.mn /\ rng2.mx = rng.mx /\ rng2.iv = rng.iv
    /\ RReadBack /\ rng.mn > rng.mx =>
          rng2.mn = rng.mn /\ rng2.mx = rng.mn /\ rng2.iv = <<rng.mn>>

\* a multi-element range has been written and read back
C8_Witness ==
    /\ RReadBack /\ rng.mn < rng.mx /\ Len(rout) >= 3
    /\ rng2.iv = rng.iv

\* C9: parse of a single non-negative integer text "k" yields mn = mx = k and
\* the index sequence [k], and write of that range emits "k", not "k:k".
C9_Singleton ==
    RParsed /\ rin.form = "x" /\ rin.x >= 0 =>
        /\ rng.mn = rin.x /\ rng.mx = rin.x /\ rng.iv = <<rin.x>>
        /\ RWritten =>
              /\ rout = IntStr(rin.x)
              /\ rout # IntStr(rin.x) \o <<":">> \o IntStr(rin.x)
              /\ ~rin.pad => rout = rin.text

\* "5" has been parsed and written
C9_Witness ==
    /\ RWritten /\ rin.text = <<"5">> /\ rng.iv = <<5>>
    /\ rout = <<"5">>

\* C12, as stated: parse of a text with an operand that is not an integer
\* (empty or non-numeric) ends the process with a format error and never
\* leaves a populated range.
C12_Claim ==
    rin.form = "malformed" => status = "exit" /\ rng.iv = <<>>

----------------------------------------------------------------------------
(* Properties of IndexBlockSet, checked under SpecSet *)

\* the last call on ibs was setType and it has returned
STyped == sin.op = "setType" /\ status = "run"

\* the seven dimension names with the bounds each is to give
StandardLimits ==
    {[key |-> STR_YEAR, mn |-> cfg.mnYr, mx |-> cfg.mxYr],
     [key |-> STR_SEX, mn |-> 1, mx |-> 2],
     [key |-> STR_MATURITY_STATE, mn |-> 1, mx |-> 2],
     [key |-> STR_SHELL_CONDITION, mn |-> 1, mx |-> 2],
     [key |-> STR_SIZE, mn |-> 1, mx |-> cfg.nZBs],
     [key |-> STR_FISHERY, mn |-> 1, mx |-> cfg.nFsh],
     [key |-> STR_SURVEY, mn |-> 1, mx |-> cfg.nSrv]}

\* C15, as stated: setType with each of YEAR, SEX, MATURITY_STATE,
\* SHELL_CONDITION, SIZE, FISHERY, SURVEY prints no warning and sets
\* (modMin, modMax) to (minYear, maxYear), (1,2), (1,2), (1,2),
\* (1, sizeBinCount), (1, fisheryCount), (1, surveyCount) respectively.
C15_Claim ==
    STyped /\ sin.in.suffix = <<>> =>
        \A e \in StandardLimits :
            sin.in.key = e.key =>
                ~warned /\ ibs.modMin = e.mn /\ ibs.modMax = e.mx

\* C16: setType with a dispatch key that is none of the seven names does not
\* end the process; it prints the warning, stores the dispatch key as the
\* type, and leaves (modMin, modMax) as they were before the call.
C16_UnknownKeyWarns ==
    sin.op = "setType" /\ (\A e \in StandardLimits : sin.in.key # e.key) =>
        /\ status = "run"
        /\ warned
        /\ ibs.type = sin.in.key
        /\ ibs.modMin = sin.preMin /\ ibs.modMax = sin.preMax

\* setType("FOO_BAR") on a set that setType("YEAR") gave the year span
C16_Witness ==
    /\ STyped /\ sin.in.key = STR_FOO /\ sin.in.suffix # <<>> /\ warned
    /\ cfg = Configured /\ ibs.modMin = 1960 /\ ibs.modMax = 1965

BlockBoundsOf(b) == <<b.modMin, b.modMax>>

\* C17, as stated: after any sequence of setType, allocate and read calls,
\* every block of the set was constructed with the set's current
\* (modMin, modMax), the block ids are exactly 1..n, and n is the declared
\* block count.
C17_Original ==
    sin.op # "none" /\ status = "run" =>
        /\ ibs.nIBs = sin.n
        /\ DOMAIN ibs.ppIBs = 1..sin.n
        /\ \A i \in DOMAIN ibs.ppIBs :
              BlockBoundsOf(ibs.ppIBs[i]) = <<ibs.modMin, ibs.modMax>>

\* C17, amended: the block ids are exactly 1..n and n is the declared block
\* count; right after allocate or read every block has the set's
\* (modMin, modMax); after a later setType every block still has the bounds
\* the set had when the blocks were constructed.
C17_Amended ==
    sin.op # "none" /\ status = "run" =>
        /\ ibs.nIBs = sin.n
        /\ DOMAIN ibs.ppIBs = 1..sin.n
        /\ sin.op \in {"allocate", "read"} =>
              \A i \in DOMAIN ibs.ppIBs :
                  BlockBoundsOf(ibs.ppIBs[i]) = <<ibs.modMin, ibs.modMax>>
        /\ sin.op = "setType" =>
              \A i \in DOMAIN ibs.ppIBs : BlockBoundsOf(ibs.ppIBs[i]) = sin.at

\* a set read as YEAR and then given the type SEX: its blocks keep the year span
C17_Witness ==
    /\ STyped /\ ibs.nIBs = 2 /\ ibs.modMin = 1 /\ ibs.modMax = 2
    /\ \A i \in DOMAIN ibs.ppIBs :
          BlockBoundsOf(ibs.ppIBs[i]) = <<1960, 1965>> /\ ibs.ppIBs[i].nRCs > 0

\* block b holds the ranges of the block text in, with its defaults put in
HoldsBlock(b, in) ==
    /\ b.nRCs = Len(in.parts)
    /\ Len(b.ppIRs) = Len(in.parts)
    /\ \A c \in 1..Len(in.parts) :
          /\ b.ppIRs[c].mn = (IF in.parts[c].x < 0 THEN b.modMin ELSE in.parts[c].x)
          /\ b.ppIRs[c].mx = (IF in.parts[c].y < 0 THEN b.modMax ELSE in.parts[c].y)

\* C18: after a read with block count n and ids that are a permutation of
\* 1..n, the block at each id holds the block text that was paired with that
\* id, whatever the order of the pairs (e.g. count 3 with ids 2,1,3).
C18_ById ==
    sin.op = "read" /\ status = "run" =>
        \A k \in 1..sin.in.n :
            HoldsBlock(ibs.ppIBs[sin.in.ids[k]], sin.in.blocks[k])

\* count 3 with ids 2,1,3: block 1 holds the second text, block 2 the first
C18_Witness ==
    /\ sin.op = "read" /\ status = "run"
    /\ sin.in.n = 3 /\ sin.in.ids = <<2, 1, 3>>
    /\ ibs.ppIBs[1].nRCs = 2 /\ ibs.ppIBs[2].nRCs = 1 /\ ibs.ppIBs[3].nRCs = 1

\* the end-to-end text was read with the year bounds 1960..1965 and no call
\* has changed the collection since
C24_Case ==
    /\ ssin.op = "read" /\ ssin.in = EndToEndInput
    /\ cfg.mnYr = 1960 /\ cfg.mxYr = 1965

\* C24: with the year bounds 1960..1965, reading "INDEX_BLOCK_SETS 1
\* INDEX_BLOCK_SET 1 YEAR 2 1 [1960:1962] 2 [-1:1959;1963:-1]" completes
\* without error; the set found for "YEAR" has block 1 with forwardMap
\* [1960,1961,1962] and block 2 with a forwardMap that contains 1963, 1964
\* and 1965.
C24_EndToEnd ==
    C24_Case =>
        /\ status = "run" /\ ~oob
        /\ ssin.outside = {} /\ ibss.nIBSs = 1
        /\ IndexBlockSets_getIndexBlockSet(ibss, STR_YEAR) = 1
        /\ got # NoResult /\ got.type.text = STR_YEAR =>
              /\ got.slot = 1
              /\ IndexBlockSet_getBlock(ibss.ppIBSs[got.slot], 1).ivFwd
                    = <<1960, 1961, 1962>>
              /\ \A y \in {1963, 1964, 1965} :
                    \E q \in DOMAIN IndexBlockSet_getBlock(ibss.ppIBSs[got.slot], 2).ivFwd :
                       IndexBlockSet_getBlock(ibss.ppIBSs[got.slot], 2).ivFwd[q] = y

\* the text was read and the set for "YEAR" was asked for
C24_Witness ==
    /\ C24_Case /\ status = "run"
    /\ got # NoResult /\ got.type.text = STR_YEAR /\ got.slot = 1
    /\ ibss.ppIBSs[1].type = STR_YEAR /\ ibss.ppIBSs[1].nIBs = 2
    /\ ibss.ppIBSs[1].ppIBs[2].ivFwd = <<1963, 1964, 1965>>

\* the last pair of the input that carries the id, 0 when none does
LastPairOf(in, id) ==
    IF \E k \in 1..in.n : in.ids[k] = id
    THEN CHOOSE k \in 1..in.n :
            in.ids[k] = id /\ \A h \in (k + 1)..in.n : in.ids[h] # id
    ELSE 0

\* C28, as stated: read indexes the block array only at positions 1..n for
\* every id token (ids <= 0, ids > n and repeated ids included); after a
\* read with a repeated id, the block of the repeated id holds the later
\* text and the block of an id that never appeared is unparsed, with no
\* ranges.
C28_Claim ==
    sin.op = "read" =>
        /\ sin.outside = {}
        /\ status = "run" =>
              \A id \in 1..sin.in.n :
                  IF LastPairOf(sin.in, id) # 0
                  THEN HoldsBlock(ibs.ppIBs[id],
                                  sin.in.blocks[LastPairOf(sin.in, id)])
                  ELSE ibs.ppIBs[id] = IndexBlock(ibs.modMin, ibs.modMax)

----------------------------------------------------------------------------
(* Properties of IndexBlock, checked under SpecBlock *)

\* parse has returned
BParsed == bin # NoInput /\ status = "run"

\* model index i lies in range c of the block
Covers(c, i) == blk.ppIRs[c].mn <= i /\ i <= blk.ppIRs[c].mx

Covered(i) == \E c \in 1..Len(blk.ppIRs) : Covers(c, i)

\* the last range, in parse order, that covers i
LastCover(i) ==
    CHOOSE c \in 1..Len(blk.ppIRs) :
        Covers(c, i) /\ \A d \in 1..Len(blk.ppIRs) : Covers(d, i) => d <= c

\* the number of forward positions taken by the ranges before range c
RECURSIVE PositionsBefore(_)
PositionsBefore(c) ==
    IF c <= 1 THEN 0 ELSE PositionsBefore(c - 1) + Len(blk.ppIRs[c - 1].iv)

\* the index sequences of the ranges 1..c, concatenated
RECURSIVE ConcatIvs(_)
ConcatIvs(c) ==
    IF c = 0 THEN <<>> ELSE ConcatIvs(c - 1) \o blk.ppIRs[c].iv

Least(S) == CHOOSE m \in S : \A x \in S : m <= x

Greatest(S) == CHOOSE m \in S : \A x \in S : m >= x

C1_Case ==
    /\ BParsed /\ blk.modMin = 1 /\ blk.modMax = 5
    /\ bin.text = <<"[", "1", ":", "3", ";", "2", ":", "5", "]">>

\* C1, as stated: "[1:3;2:5]" with (1, 5) yields forwardMap [1,2,3,2,3,4,5]
\* and a reverseMap with index 2 at position 5 and index 3 at position 6.
C1_Original ==
    C1_Case =>
        /\ blk.ivFwd = <<1, 2, 3, 2, 3, 4, 5>> /\ Len(blk.ivFwd) = 7
        /\ blk.ivRev[2] = 5 /\ blk.ivRev[3] = 6

\* C1, amended: "[1:3;2:5]" with (1, 5) yields forwardMap [1,2,3,2,3,4,5]
\* and a reverseMap with index 2 at position 4 and index 3 at position 5,
\* the second range's positions.
C1_Amended ==
    C1_Case =>
        /\ blk.ivFwd = <<1, 2, 3, 2, 3, 4, 5>> /\ Len(blk.ivFwd) = 7
        /\ blk.ivRev[2] = 4 /\ blk.ivRev[3] = 5
        /\ blk.ivFwd[blk.ivRev[2]] = 2 /\ blk.ivFwd[blk.ivRev[3]] = 3

\* "[1:3;2:5]" has been parsed by a block built with (1, 5)
C1_Witness == C1_Case /\ blk.nRCs = 2 /\ blk.nIDs = 7

\* C2: after parse, reverseMap is defined exactly over
\* min(modMin, smallest mn) .. max(modMax, largest mx), and every index that
\* some range covers maps to the position it received in the last range, in
\* parse order, that covers it.
C2_ReverseLastWins ==
    BParsed =>
        /\ DOMAIN blk.ivRev =
              Least({blk.modMin} \cup {blk.ppIRs[c].mn : c \in 1..Len(blk.ppIRs)})
              ..
              Greatest({blk.modMax} \cup {blk.ppIRs[c].mx : c \in 1..Len(blk.ppIRs)})
        /\ Len(blk.ppIRs) = Len(bin.parts)
        /\ \A i \in DOMAIN blk.ivRev :
              Covered(i) =>
                  blk.ivRev[i] =
                      PositionsBefore(LastCover(i))
                      + (i - blk.ppIRs[LastCover(i)].mn + 1)

\* two ranges of a parsed block cover the same index
C2_Witness ==
    /\ BParsed /\ ~oob /\ Len(blk.ppIRs) >= 2
    /\ \E i \in DOMAIN blk.ivRev :
          Covers(1, i) /\ Covers(2, i) /\ blk.ivRev[i] > Len(blk.ppIRs[1].iv)

\* C3, as stated: after parse, forwardMap is the concatenation, in range
\* order, of the ranges' index sequences, and its allocated length is the
\* sum of the ranges' index-sequence lengths.
C3_Claim ==
    BParsed =>
        /\ blk.ivFwd = ConcatIvs(Len(blk.ppIRs))
        /\ Len(blk.ivFwd) = PositionsBefore(Len(blk.ppIRs) + 1)

\* C11, as stated: parse ends the process, building no ranges and no lookup
\* tables, whenever the text does not begin with "[" or does not end with "]".
C11_Claim ==
    bin # NoInput
      /\ (bin.text[1] # "[" \/ bin.text[Len(bin.text)] # "]")
      => /\ status = "exit"
         /\ blk.nRCs = 0 /\ blk.ppIRs = <<>>
         /\ blk.nIDs = 0 /\ blk.ivFwd = <<>> /\ blk.ivRev = <<>>

\* C10: for every index i of reverseMap's domain, reverseMap(i) = 0 exactly
\* when no range covers i; for "[10:12]" with (1, 20), reverseMap(5) = 0 and
\* reverseMap(13) = 0 while reverseMap(10..12) are not 0.
C10_AbsenceIsZero ==
    /\ BParsed =>
          \A i \in DOMAIN blk.ivRev : (blk.ivRev[i] = 0) <=> ~Covered(i)
    /\ BParsed /\ blk.modMin = 1 /\ blk.modMax = 20
         /\ bin.text = <<"[", "1", "0", ":", "1", "2", "]">>
         => /\ DOMAIN blk.ivRev = 1..20
            /\ blk.ivRev[5] = 0 /\ blk.ivRev[13] = 0
            /\ \A i \in 10..12 : blk.ivRev[i] # 0

\* "[10:12]" has been parsed by a block built with (1, 20)
C10_Witness ==
    /\ BParsed /\ blk.modMin = 1 /\ blk.modMax = 20
    /\ bin.text = <<"[", "1", "0", ":", "1", "2", "]">>
    /\ blk.ivFwd = <<10, 11, 12>>

\* blk was parsed, wrote its text, and blk2 was built from that text
BReadBack == BParsed /\ bout # NoText /\ blk2 # NoBlock

\* the written text: "[", the ranges' texts in parse order with ";" between
\* them, "]"
WrittenInOrder ==
    /\ bout[1] = "[" /\ bout[Len(bout)] = "]"
    /\ Cardinality({k \in 1..Len(bout) : bout[k] = ";"}) = Len(blk.ppIRs) - 1
    /\ \A c \in 1..Len(blk.ppIRs) :
          \E k \in 2..Len(bout) :
             /\ Cardinality({j \in 1..(k - 1) : bout[j] = ";"}) = c - 1
             /\ bout[k - 1] \in {"[", ";"}
             /\ SubSeq(bout, k, k + Len(IntStr(blk.ppIRs[c].mn)) - 1)
                   = IntStr(blk.ppIRs[c].mn)

\* C21, as stated: write emits "[", each range's text in parse order
\* separated by ";", and "]"; parsing that text into a block with the same
\* bounds reproduces the same ranges, forwardMap and reverseMap.
C21_Original ==
    /\ BParsed /\ bout # NoText => WrittenInOrder
    /\ BReadBack =>
          /\ blk2.ppIRs = blk.ppIRs
          /\ blk2.ivFwd = blk.ivFwd
          /\ blk2.ivRev = blk.ivRev

\* C21, amended: the text is as stated, and the block read back has as many
\* ranges as the written one.  A range with mn <= mx comes back unchanged; a
\* range with mn > mx is written as "mn" alone and comes back as the single
\* index mn.  When every range has mn <= mx the ranges, forwardMap and
\* reverseMap are all reproduced.
C21_Amended ==
    /\ BParsed /\ bout # NoText => WrittenInOrder
    /\ BReadBack =>
          /\ Len(blk2.ppIRs) = Len(blk.ppIRs)
          /\ \A c \in 1..Len(blk.ppIRs) :
                IF blk.ppIRs[c].mn <= blk.ppIRs[c].mx
                THEN blk2.ppIRs[c] = blk.ppIRs[c]
                ELSE /\ blk2.ppIRs[c].mn = blk.ppIRs[c].mn
                     /\ blk2.ppIRs[c].mx = blk.ppIRs[c].mn
                     /\ blk2.ppIRs[c].iv = <<blk.ppIRs[c].mn>>
          /\ (\A c \in 1..Len(blk.ppIRs) : blk.ppIRs[c].mn <= blk.ppIRs[c].mx)
                => /\ blk2.ppIRs = blk.ppIRs
                   /\ blk2.ivFwd = blk.ivFwd
                   /\ blk2.ivRev = blk.ivRev

\* two different ranges, the second one overlapping the first, read back
C21_Witness ==
    /\ BReadBack /\ ~oob /\ Len(blk.ppIRs) = 2
    /\ blk.ppIRs[1] # blk.ppIRs[2]
    /\ Len(blk.ivFwd) >= 3
    /\ blk2.ivFwd = blk.ivFwd /\ blk2.ivRev = blk.ivRev

\* C22, as stated: IndexBlockSet.write emits the type, the block count n and
\* then exactly n (id, block text) entries for the ids 1..n in order, for
\* every n >= 0; with n = 0 it emits no entry and accesses no block.
C22_Claim ==
    sout # NoOutput /\ sout.op = "set" =>
        /\ status = "run"
        /\ sout.type = ibs.type
        /\ sout.count = ibs.nIBs
        /\ Len(sout.entries) = ibs.nIBs
        /\ \A k \in 1..Len(sout.entries) :
              /\ sout.entries[k].id = k
              /\ sout.entries[k].at \in 1..ibs.nIBs

\* C23, as stated: getIndexLimits returns (minYear, maxYear) for YEAR,
\* (1, sizeBinCount) for SIZE, (1, 2) for SEX, MATURITY_STATE and
\* SHELL_CONDITION, (1, fisheryCount) for FISHERY and (1, surveyCount) for
\* SURVEY, and ends the process only for a key that is none of these.
C23_Claim ==
    limits # NoLimits =>
        /\ \A e \in StandardLimits :
              limits.idxType = e.key =>
                  status = "run" /\ limits.mn = e.mn /\ limits.mx = e.mx
        /\ status = "exit" =>
              \A e \in StandardLimits : limits.idxType # e.key

\* C26, as stated: after parse of any text, reverseMap(i) = p # 0 implies
\* 1 <= p <= forwardMap.length and forwardMap(p) = i, and every forward
\* position p has reverseMap(forwardMap(p)) >= p, with equality exactly when
\* no later position holds the same index.
C26_Claim ==
    BParsed =>
        /\ \A i \in DOMAIN blk.ivRev :
              blk.ivRev[i] # 0 =>
                  /\ 1 <= blk.ivRev[i] /\ blk.ivRev[i] <= Len(blk.ivFwd)
                  /\ blk.ivFwd[blk.ivRev[i]] = i
        /\ \A q \in 1..Len(blk.ivFwd) :
              /\ blk.ivFwd[q] \in DOMAIN blk.ivRev
              /\ blk.ivRev[blk.ivFwd[q]] >= q
              /\ (blk.ivRev[blk.ivFwd[q]] = q) <=>
                    ~\E h \in (q + 1)..Len(blk.ivFwd) : blk.ivFwd[h] = blk.ivFwd[q]

\* C27, as stated: createIndexVectors never writes forwardMap or reverseMap
\* outside their allocated bounds, ranges with mn > mx included, and the
\* number of forward entries written by the second pass equals the length
\* allocated from the first pass.
C27_Claim ==
    bin # NoInput /\ bin.text[1] = "[" =>
        /\ status = "run"
        /\ ~oob
        /\ blk.nIDs = Len(blk.ivFwd)

----------------------------------------------------------------------------
(* Properties of IndexBlockSets, checked under SpecSets *)

\* the slots whose set has the type text t
SlotsOfType(t) == {s \in 1..ibss.nIBSs : typeAt(ibss, s) = t}

\* C13, as stated: getByType(t) returns the set in the lowest-numbered slot
\* whose type equals t, and null when no slot's type equals t, for every
\* collection size n >= 0.
C13_Claim ==
    got.asked =>
        IF SlotsOfType(got.type.text) = {} THEN got.slot = 0
        ELSE got.slot = Least(SlotsOfType(got.type.text))

\* the slots that were last given the type text t
SlotsGiven(t) ==
    {s \in DOMAIN ssin.given :
        ssin.given[s] # NoInput /\ ssin.given[s].text = t}

\* C14, as stated: a set given a YEAR type text, with or without a suffix,
\* has the bounds (minYear, maxYear) and the full text as its type, so that
\* getByType with that text finds it; in particular for "YEAR_RECRUITMENT".
C14_Claim ==
    status = "run" =>
        \A i \in DOMAIN ssin.given :
            ssin.given[i] # NoInput /\ ssin.given[i].key = STR_YEAR =>
                /\ ibss.ppIBSs[i].modMin = cfg.mnYr
                /\ ibss.ppIBSs[i].modMax = cfg.mxYr
                /\ ibss.ppIBSs[i].type = ssin.given[i].text
                /\ got.asked /\ got.type.text = ssin.given[i].text =>
                      got.slot = Least(SlotsGiven(got.type.text))

\* read has got past the collection's keyword and count
SRead ==
    /\ ssin.op = "read"
    /\ ssin.in.keyword = STR_INDEX_BLOCK_SETS
    /\ ssin.in.n > 0

\* triple j has a wrong keyword or a slot number outside 1..n
BadTriple(j) ==
    \/ ssin.in.triples[j].kw # STR_INDEX_BLOCK_SET
    \/ ssin.in.triples[j].k \notin 1..ssin.in.n

BadTriples == {j \in 1..ssin.in.n : BadTriple(j)}

\* C19, as stated: when a triple has a wrong keyword or a slot number outside
\* 1..n, read ends the process before a set is created or read for that
\* triple, and no slot outside 1..n is ever stored to.
C19_Claim ==
    SRead /\ BadTriples # {} =>
        /\ status = "exit"
        /\ ssin.created = Least(BadTriples) - 1
        /\ ssin.outside = {}

\* C20, as stated: after read returns for a count n > 0, the slot count is n
\* and every slot 1..n holds a set populated from a triple of the input that
\* names the slot, whatever slot numbers the triples carried.
C20_Claim ==
    SRead /\ status = "run" =>
        /\ ibss.nIBSs = ssin.in.n
        /\ DOMAIN ibss.ppIBSs = 1..ssin.in.n
        /\ \A i \in 1..ssin.in.n :
              /\ ibss.ppIBSs[i] # Unset
              /\ \E j \in 1..ssin.in.n :
                    /\ ssin.in.triples[j].k = i
                    /\ ibss.ppIBSs[i].nIBs = ssin.in.triples[j].body.n


\* the collection was read and then written
SWritten == ssin.op = "read" /\ sout # NoOutput /\ sout.op = "sets"

\* C29, as stated: for every declared set count (positive, zero, negative), a
\* write that follows read dereferences only the slots 1..n that read
\* populated; with a count <= 0 read allocates no slot and write emits only
\* the keyword and the count, accessing no slot.
C29_Claim ==
    SWritten =>
        /\ sout.count = ssin.in.n
        /\ \A k \in 1..Len(sout.entries) :
              /\ sout.entries[k].at \in 1..sout.count
              /\ sout.entries[k].inArray /\ sout.entries[k].populated
        /\ sout.count <= 0 =>
              /\ ssin.created = 0 /\ ibss.ppIBSs = <<>>
              /\ sout.entries = <<>>

====
